---- MODULE Spec2Model ----
(***************************************************************************)
(* Control loop of the 4DOF robot arm (robot_4dof.ino): four Axis objects, *)
(* two Buttons, setup() and loop().  One loop() pass is a tick; pc is the   *)
(* position inside setup()/loop().                                          *)
(***************************************************************************)
EXTENDS Integers, Sequences, FiniteSets

(***************************************************************************)
(* Configuration                                                            *)
(***************************************************************************)
step_width == 5

joystick_noise == 10

\* 1024 / 2: the constructor's default for _middle_pos, the reading of a
\* joystick at rest
Neutral == 512

\* Axis* axes[] = {&base, &arm1, &arm2, &hand, nullptr}
axes == <<"base", "arm1", "arm2", "hand">>

Axes == {axes[k] : k \in 1..Len(axes)}

NoAxis == "nullptr"

Buttons == {"button_calibrate", "button_home"}

VARIABLES
  current_pos,   \* Axis::_current_pos
  middle_pos,    \* Axis::_middle_pos
  link,          \* Axis::_link
  servo,         \* angle last written to Axis::_servo
  state,         \* Button::_state
  led,           \* level of Port::led
  pc,            \* position inside setup() / loop()
  i,             \* index of the axis loop() processes next
  moved,         \* loop()'s local `moved'
  scenario,      \* which joystick the operator works, and the configuration
  reading,       \* analogRead of this tick's process(), by axis
  step,          \* `step' of this tick's process(), by axis
  result,        \* return value of this tick's process(), by axis
  level,         \* digitalRead of the latest is_triggered(), by button
  triggered,     \* return value of this tick's is_triggered(), by button
  cal_reading,   \* analogRead of this tick's calibrate(), by axis
  before,        \* current_pos when this tick's processing started
  held,          \* hold scenario: consecutive process() calls of base reading 0
  hold_start,    \* hold scenario: base's position when that run started
  calibration,   \* analogRead of the latest calibrate(), by axis
  moves          \* number of move() calls of this tick, by axis

vars == <<current_pos, middle_pos, link, servo, state, led, pc, i, moved,
          scenario, reading, step, result, level, triggered, cal_reading,
          before, held, hold_start, calibration, moves>>

\* the axis a misconfigured scenario constructs with an initial_pos outside
\* [min_pos, max_pos]; the shipped configuration has none
Misconfigured ==
  CASE scenario = "misconfigured_hand" -> "hand"
    [] scenario = "misconfigured_arm2" -> "arm2"
    [] OTHER -> NoAxis

\* the initial_pos of the misconfigured axis: hand below its min_pos 80,
\* arm2 above its max_pos 180
OutOfBounds(a) == IF a = "hand" THEN 60 ELSE 190

Levels == {"LOW", "HIGH"}

initial_pos(a) ==
  IF a = Misconfigured THEN OutOfBounds(a)
  ELSE CASE a = "base" -> 90 [] a = "arm1" -> 20 [] a = "arm2" -> 90 [] a = "hand" -> 100

min_pos(a) ==
  CASE a = "base" -> 0 [] a = "arm1" -> 0 [] a = "arm2" -> 30 [] a = "hand" -> 80

max_pos(a) ==
  CASE a = "base" -> 180 [] a = "arm1" -> 90 [] a = "arm2" -> 180 [] a = "hand" -> 130

direction(a) ==
  CASE a = "base" -> "POS" [] a = "arm1" -> "POS" [] a = "arm2" -> "NEG" [] a = "hand" -> "NEG"

(***************************************************************************)
(* Bounds of the environment                                                *)
(***************************************************************************)
\* longest run of ticks the held-joystick scenario counts
MaxHeld == 20

\* analogRead values of a joystick the operator works: both ends, and a
\* reading inside the noise band next to rest
RawValues == {0, Neutral + 3, 1023}

\* analogRead values at a calibration: at rest, or pulled to one end
CalValues == {Neutral, 1023}

\* analogRead values of the held-joystick scenario: at rest, or held at 0
HoldValues == {0, Neutral}

\* analogRead values of the sweep scenario, calibrated at rest: the deviations
\* -502, -10, 0, 10, 100, 101 and 502
SweepValues == {Neutral + 502, Neutral + 10, Neutral, Neutral - 10,
                Neutral - 100, Neutral - 101, Neutral - 502}

\* the operator works one joystick: joystick 1 drives arm1 (v) and arm2 (h),
\* joystick 2 drives base (h) and hand (v)
Scenarios == {"joystick_1", "joystick_2"}

NoRead == 0 - 1

NoAngle == 0 - 1

(***************************************************************************)
(* Arduino core                                                             *)
(***************************************************************************)
\* C++ integer division truncates toward zero (den > 0 here)
TruncDiv(num, den) == IF num >= 0 THEN num \div den ELSE -((-num) \div den)

\* map() that rounds the quotient to the nearest integer
map_rounds(x, in_min, in_max, out_min, out_max) ==
  TruncDiv(2 * (x - in_min) * (out_max - out_min) + (in_max - in_min),
           2 * (in_max - in_min)) + out_min

\* long map(long x, long in_min, long in_max, long out_min, long out_max)
map(x, in_min, in_max, out_min, out_max) ==
  TruncDiv((x - in_min) * (out_max - out_min), in_max - in_min) + out_min

abs(x) == IF x > 0 THEN x ELSE -x

\* constrain that forgets the upper bound
constrain_no_high(amt, low, high) == IF amt < low THEN low ELSE amt

\* constrain that forgets the lower bound
constrain_no_low(amt, low, high) == IF amt > high THEN high ELSE amt

constrain(amt, low, high) == IF amt < low THEN low ELSE IF amt > high THEN high ELSE amt

(***************************************************************************)
(* CLASS Axis                                                               *)
(***************************************************************************)
\* calibrate() that averages the reading with the old null position
calibrate_averages(old_middle, raw) == (old_middle + raw) \div 2

\* calibrate() that reads the joystick and keeps the old null position
calibrate_keeps_old(old_middle, raw) == old_middle

\* calibrate(): _middle_pos = analogRead (_joystick_port)
calibrate(old_middle, raw) == raw

\* reset() that goes to the lower bound instead of the home position
reset_to_min(a) == min_pos(a)

\* reset() that clamps the home position into the bounds
reset_clamped(a) == constrain(initial_pos(a), min_pos(a), max_pos(a))

\* reset(): _current_pos = _initial_pos, written to the servo
reset(a) == initial_pos(a)

\* reset() that sets the position and does not command the servo
reset_state_no_write(a, ax) == [ax EXCEPT !.current_pos = reset(a)]

\* reset() on the fields of axis a: _current_pos = _initial_pos;
\* _servo.write (_current_pos)
reset_state(a, ax) == [ax EXCEPT !.current_pos = reset(a), !.servo = reset(a)]

\* process() without the dead-zone override
process_step_no_deadzone(middle, raw) ==
  map(middle - raw, -512 + joystick_noise, 512 - joystick_noise, -step_width, step_width)

\* process() that maps the full joystick domain
process_step_full_domain(middle, raw) ==
  LET value == middle - raw
      mapped == map(value, -512, 512, -step_width, step_width)
  IN  IF abs(value) < joystick_noise THEN 0 ELSE mapped

\* process(): the step computed from _middle_pos and the reading
process_step(middle, raw) ==
  LET value == middle - raw
      mapped == map(value, -512 + joystick_noise, 512 - joystick_noise,
                    -step_width, step_width)
  IN  IF abs(value) < joystick_noise THEN 0 ELSE mapped

\* process() that reports only steps in the positive direction
process_result_positive(s) == s > 0

\* process(): return step != 0
process_result(s) == s # 0

\* loop() that assigns the result instead of or-ing it in
or_assign_overwrites(m, r) == r

\* loop(): moved |= axes[i]->process ()
or_assign(m, r) == m \/ r

\* move() that adds the step whatever the direction
move_ignores_direction(dir, pos, s, low, high) == constrain(pos + s, low, high)

\* move(step) on an axis with the given direction, position and bounds
move(dir, pos, s, low, high) ==
  constrain(IF dir = "POS" THEN pos + s ELSE pos - s, low, high)

\* process() that forgets the linked axis
process_moves_no_link(cp, lk, a, s) ==
  [cp EXCEPT ![a] = move(direction(a), cp[a], s, min_pos(a), max_pos(a))]

\* process() that moves the linked axis in the direction of the processed one
process_moves_link_direction(cp, lk, a, s) ==
  LET own == [cp EXCEPT ![a] = move(direction(a), cp[a], s, min_pos(a), max_pos(a))]
  IN  IF lk[a] # NoAxis
        THEN [own EXCEPT ![lk[a]] = move(direction(a), own[lk[a]], s,
                                         min_pos(lk[a]), max_pos(lk[a]))]
        ELSE own

\* process(): move (step); if (_link) _link->move (step).  The positions of
\* all axes after axis a has processed step s.
process_moves(cp, lk, a, s) ==
  LET own == [cp EXCEPT ![a] = move(direction(a), cp[a], s, min_pos(a), max_pos(a))]
  IN  IF lk[a] # NoAxis
        THEN [own EXCEPT ![lk[a]] = move(direction(lk[a]), own[lk[a]], s,
                                         min_pos(lk[a]), max_pos(lk[a]))]
        ELSE own

\* process() whose move of the linked axis does not write the servo
servo_after_own_only(sv, cp, lk, a) == [sv EXCEPT ![a] = cp[a]]

\* move(): _servo.write (_current_pos), for axis a and for its link.  The
\* angles last written after axis a has processed, cp being the positions.
servo_after(sv, cp, lk, a) ==
  [x \in Axes |-> IF x = a \/ x = lk[a] THEN cp[x] ELSE sv[x]]

(***************************************************************************)
(* CLASS Button                                                             *)
(***************************************************************************)
\* is_triggered() that reports the level instead of the edge
is_triggered_level(old_state, lv) ==
  [triggered |-> lv = "LOW", state |-> lv = "LOW"]

is_triggered(old_state, lv) ==
  LET now == (lv = "LOW")
  IN  [triggered |-> now /\ ~old_state, state |-> now]

(***************************************************************************)
(* Environment: what the joysticks can read in each scenario                *)
(***************************************************************************)
Live ==
  CASE scenario = "joystick_1" -> {"arm1", "arm2"}
    [] scenario = "joystick_2" -> {"base", "hand"}
    [] scenario = "hold" -> {"base"}
    [] scenario = "sweep" -> {"base"}
    [] scenario = "misconfigured_hand" -> {"hand"}
    [] scenario = "misconfigured_arm2" -> {"arm1", "arm2"}

Readings(a) ==
  IF a \notin Live THEN {Neutral}
  ELSE IF scenario = "hold" THEN HoldValues
  ELSE IF scenario = "sweep" THEN SweepValues ELSE RawValues

CalReadings(a) ==
  IF a \in Live /\ scenario \in Scenarios THEN CalValues ELSE {Neutral}

CalChoices ==
  {m \in [Axes -> CalValues \cup {Neutral}] : \A a \in Axes : m[a] \in CalReadings(a)}

(***************************************************************************)
(* Initial state: the global objects as constructed                         *)
(***************************************************************************)
InitObjects ==
  /\ current_pos = [a \in Axes |-> initial_pos(a)]
  /\ middle_pos = [a \in Axes |-> Neutral]
  /\ link = [a \in Axes |-> NoAxis]
  /\ servo = [a \in Axes |-> NoAngle]
  /\ state = [b \in Buttons |-> FALSE]
  /\ led = FALSE
  /\ pc = "setup"
  /\ i = 0
  /\ moved = FALSE
  /\ reading = [a \in Axes |-> NoRead]
  /\ step = [a \in Axes |-> 0]
  /\ result = [a \in Axes |-> FALSE]
  /\ level = [b \in Buttons |-> "none"]
  /\ triggered = [b \in Buttons |-> FALSE]
  /\ cal_reading = [a \in Axes |-> NoRead]
  /\ before = [a \in Axes |-> initial_pos(a)]
  /\ held = 0
  /\ hold_start = initial_pos("base")
  /\ calibration = [a \in Axes |-> NoRead]
  /\ moves = [a \in Axes |-> 0]

Init == scenario \in Scenarios /\ InitObjects

\* the base joystick alone is worked, calibrated at rest and then held at 0
InitHold == scenario = "hold" /\ InitObjects

\* the base joystick alone is worked, calibrated at rest, over readings at
\* the edges of the dead zone and of the mapping's domain
InitSweep == scenario = "sweep" /\ InitObjects

\* one axis is constructed with initial_pos outside [min_pos, max_pos]
InitMisconfigured ==
  scenario \in {"misconfigured_hand", "misconfigured_arm2"} /\ InitObjects

(***************************************************************************)
(* setup()                                                                  *)
(***************************************************************************)
Setup ==
  /\ pc = "setup"
  /\ \E m \in CalChoices :
       /\ middle_pos' = [a \in Axes |-> calibrate(middle_pos[a], m[a])]
       /\ calibration' = m
  /\ link' = [link EXCEPT !["arm1"] = "arm2"]
  /\ current_pos' = [a \in Axes |-> reset(a)]
  /\ servo' = [a \in Axes |-> reset(a)]
  /\ led' = FALSE
  /\ pc' = "calibrate"
  /\ before' = [a \in Axes |-> reset(a)]
  /\ hold_start' = reset("base")
  /\ UNCHANGED <<state, i, moved, scenario, reading, step, result, level,
                 triggered, cal_reading, held, moves>>

(***************************************************************************)
(* loop()                                                                   *)
(***************************************************************************)
\* if (button_calibrate.is_triggered ()) calibrate every axis
PollCalibrate ==
  /\ pc = "calibrate"
  /\ \E lv \in Levels :
       LET r == is_triggered(state["button_calibrate"], lv)
       IN  /\ state' = [state EXCEPT !["button_calibrate"] = r.state]
           /\ level' = [level EXCEPT !["button_calibrate"] = lv]
           /\ triggered' = [b \in Buttons |-> b = "button_calibrate" /\ r.triggered]
           /\ \E m \in (IF r.triggered THEN CalChoices ELSE {middle_pos}) :
                /\ middle_pos' = IF r.triggered
                                   THEN [a \in Axes |-> calibrate(middle_pos[a], m[a])]
                                   ELSE middle_pos
                /\ cal_reading' = IF r.triggered THEN m ELSE [a \in Axes |-> NoRead]
                /\ calibration' = IF r.triggered THEN m ELSE calibration
  /\ pc' = "home"
  /\ reading' = [a \in Axes |-> NoRead]
  /\ step' = [a \in Axes |-> 0]
  /\ result' = [a \in Axes |-> FALSE]
  /\ before' = current_pos
  /\ UNCHANGED <<current_pos, link, servo, led, i, moved, scenario, held, hold_start,
                 moves>>

\* if (button_home.is_triggered ()) reset every axis; then bool moved = false
PollHome ==
  /\ pc = "home"
  /\ \E lv \in Levels :
       LET r == is_triggered(state["button_home"], lv)
           cp == IF r.triggered THEN [a \in Axes |-> reset(a)] ELSE current_pos
       IN  /\ state' = [state EXCEPT !["button_home"] = r.state]
           /\ level' = [level EXCEPT !["button_home"] = lv]
           /\ triggered' = [triggered EXCEPT !["button_home"] = r.triggered]
           /\ current_pos' = cp
           /\ servo' = IF r.triggered THEN cp ELSE servo
           /\ before' = cp
           /\ held' = IF r.triggered THEN 0 ELSE held
           /\ hold_start' = IF r.triggered THEN cp["base"] ELSE hold_start
  /\ moved' = FALSE
  /\ i' = 1
  /\ pc' = "process"
  /\ moves' = [a \in Axes |-> 0]
  /\ UNCHANGED <<middle_pos, link, led, scenario, reading, step, result, cal_reading,
                 calibration>>

\* moved |= axes[i]->process ()
Process ==
  /\ pc = "process"
  /\ LET a == axes[i]
     IN  \E raw \in Readings(a) :
           LET s == process_step(middle_pos[a], raw)
               cp == process_moves(current_pos, link, a, s)
               counted == scenario = "hold" /\ a = "base"
           IN  /\ ~(counted /\ raw = 0 /\ held >= MaxHeld)
               /\ current_pos' = cp
               /\ servo' = servo_after(servo, cp, link, a)
               /\ moves' = [x \in Axes |-> moves[x] + (IF x = a THEN 1 ELSE 0)
                                                    + (IF x = link[a] THEN 1 ELSE 0)]
               /\ reading' = [reading EXCEPT ![a] = raw]
               /\ step' = [step EXCEPT ![a] = s]
               /\ result' = [result EXCEPT ![a] = process_result(s)]
               /\ moved' = or_assign(moved, process_result(s))
               /\ held' = IF ~counted THEN held ELSE IF raw = 0 THEN held + 1 ELSE 0
               /\ hold_start' = IF counted /\ raw # 0 THEN cp[a] ELSE hold_start
  /\ i' = IF i < Len(axes) THEN i + 1 ELSE 0
  /\ pc' = IF i < Len(axes) THEN "process" ELSE "indicate"
  /\ UNCHANGED <<middle_pos, link, state, led, scenario, level, triggered,
                 cal_reading, before, calibration>>

\* digitalWrite (Port::led, moved); delay (Configuration::servo_delay)
Indicate ==
  /\ pc = "indicate"
  /\ led' = moved
  /\ pc' = "calibrate"
  /\ UNCHANGED <<current_pos, middle_pos, link, servo, state, i, moved, scenario,
                 reading, step, result, level, triggered, cal_reading, before,
                 held, hold_start, calibration, moves>>

Next == Setup \/ PollCalibrate \/ PollHome \/ Process \/ Indicate

Spec == Init /\ [][Next]_vars

SpecHold == InitHold /\ [][Next]_vars

SpecSweep == InitSweep /\ [][Next]_vars

SpecMisconfigured == InitMisconfigured /\ [][Next]_vars

\* a pass of loop() has completed and the next has not started
TickDone == pc = "calibrate" /\ reading[axes[Len(axes)]] # NoRead

\* clamping as the specification states it
ClampTo(x, low, high) == IF x < low THEN low ELSE IF x > high THEN high ELSE x

Min(x, y) == IF x < y THEN x ELSE y

(***************************************************************************)
(* C1  Clamp invariant                                                      *)
(***************************************************************************)
\* steps beyond anything process() computes
ExtremeSteps == {-1023, -11, 11, 1023}

\* C1: after setup and after every operation each axis's current_pos lies in
\* [min_pos, max_pos], and a move by any step (also one received through a
\* link) leaves it there.
ClampInvariant ==
  \A a \in Axes :
    /\ min_pos(a) <= current_pos[a] /\ current_pos[a] <= max_pos(a)
    /\ \A s \in ExtremeSteps :
         LET p == move(direction(a), current_pos[a], s, min_pos(a), max_pos(a))
         IN  min_pos(a) <= p /\ p <= max_pos(a)

\* arm1 was processed with a step that would have taken it below min_pos
ClampWitness ==
  /\ reading["arm1"] # NoRead
  /\ before["arm1"] + step["arm1"] < min_pos("arm1")
  /\ current_pos["arm1"] = min_pos("arm1")

(***************************************************************************)
(* C2  Step bound                                                           *)
(***************************************************************************)
\* C2: the step process() computes lies in [-step_width, +step_width] for
\* every calibrated middle_pos and every raw reading.
StepBound == \A a \in Axes : abs(step[a]) <= step_width

(***************************************************************************)
(* C3  Dead zone                                                            *)
(***************************************************************************)
\* the axes as constructed, before setup()
Constructed == pc = "setup"

\* for every middle_pos and reading in [0,1024) less than joystick_noise
\* apart, the computed step is 0
DeadZoneAll ==
  \A m \in 0..1023 : \A r \in 0..1023 :
    abs(m - r) < joystick_noise => process_step(m, r) = 0

\* C3: a process() whose reading is less than joystick_noise from middle_pos
\* returns false and leaves every axis's current_pos (its own and its
\* link's) unchanged.
DeadZone ==
  /\ [](Constructed => DeadZoneAll)
  /\ [][(pc = "process" /\ abs(middle_pos[axes[i]] - reading'[axes[i]]) < joystick_noise)
         => (result'[axes[i]] = FALSE /\ current_pos' = current_pos)]_vars

\* arm1 (linked to arm2) has been processed with a reading inside the noise
\* band but off middle_pos, where the linear mapping alone is not zero
DeadZoneWitness ==
  /\ reading["arm1"] # NoRead
  /\ reading["arm1"] # middle_pos["arm1"]
  /\ abs(middle_pos["arm1"] - reading["arm1"]) < joystick_noise
  /\ map(middle_pos["arm1"] - reading["arm1"], -502, 502, -5, 5) # 0
  /\ result["arm1"] = FALSE

(***************************************************************************)
(* C4  Button edge detection                                                *)
(***************************************************************************)
\* longest sequence of polled levels enumerated
MaxPolls == 5

RECURSIVE poll_results(_, _)
\* the values is_triggered() returns on the polls of a button whose _state is
\* st, reading the levels lvs in order
poll_results(st, lvs) ==
  IF lvs = <<>> THEN <<>>
  ELSE LET r == is_triggered(st, Head(lvs))
       IN  <<r.triggered>> \o poll_results(r.state, Tail(lvs))

LevelSequences == UNION {[1..n -> Levels] : n \in 0..MaxPolls}

\* on every sequence of levels, polled from _state = false, the k-th poll
\* returns true exactly when it reads LOW and the poll before it did not
EdgeOnSequences ==
  /\ \A lvs \in LevelSequences :
       LET res == poll_results(FALSE, lvs)
       IN  /\ Len(res) = Len(lvs)
           /\ \A k \in 1..Len(lvs) :
                res[k] = (lvs[k] = "LOW" /\ (k = 1 \/ lvs[k - 1] # "LOW"))
  /\ poll_results(FALSE, <<"LOW", "LOW", "HIGH", "HIGH", "LOW">>)
       = <<TRUE, FALSE, FALSE, FALSE, TRUE>>

\* a poll of button b in this step returns true exactly on a change to LOW
EdgeOnPoll(b, at) ==
  (pc = at) => (triggered'[b] = (level'[b] = "LOW" /\ level[b] # "LOW"))

\* C4: is_triggered() returns true on a poll exactly when that poll reads LOW
\* (pressed) and the poll before it did not, or there was none; so not while
\* the button stays held and not on release.
ButtonEdge ==
  /\ [](Constructed => EdgeOnSequences)
  /\ [][EdgeOnPoll("button_calibrate", "calibrate")
           /\ EdgeOnPoll("button_home", "home")]_vars

\* the home button has been polled while held down, after its press fired
\* in an earlier tick, and did not fire again
ButtonEdgeWitness ==
  /\ pc = "process"
  /\ level["button_home"] = "LOW"
  /\ ~triggered["button_home"]
  /\ state["button_home"]

(***************************************************************************)
(* C5  Linkage                                                              *)
(***************************************************************************)
\* C5: a process() of an axis A with link B that computes step s sets B's
\* current_pos to clamp(B.current_pos + s) if B is POS and to
\* clamp(B.current_pos - s) if B is NEG, with the s A applied to itself; B's
\* joystick is not read, B's middle_pos plays no part and B returns nothing.
Linkage ==
  [][(pc = "process" /\ link[axes[i]] # NoAxis) =>
       LET a == axes[i]
           b == link[a]
           s == step'[a]
       IN  /\ current_pos'[b] =
                ClampTo(IF direction(b) = "POS" THEN current_pos[b] + s
                                                ELSE current_pos[b] - s,
                        min_pos(b), max_pos(b))
           /\ current_pos'[a] =
                ClampTo(IF direction(a) = "POS" THEN current_pos[a] + s
                                                ELSE current_pos[a] - s,
                        min_pos(a), max_pos(a))
           /\ reading'[b] = reading[b]
           /\ result'[b] = result[b]
           /\ step'[b] = step[b]]_vars

\* arm1 has processed a non-zero step and arm2, not yet processed itself,
\* has moved
LinkageWitness ==
  /\ pc = "process" /\ axes[i] = "arm2"
  /\ link["arm1"] = "arm2"
  /\ step["arm1"] # 0
  /\ reading["arm2"] = NoRead
  /\ current_pos["arm2"] # before["arm2"]

(***************************************************************************)
(* C6  Tick ordering                                                        *)
(***************************************************************************)
\* the positions that processing the steps st in the order base, arm1, arm2,
\* hand makes of the positions p: arm2 moves by arm1's step, then by its own
AfterSteps(p, st) ==
  [a \in Axes |->
     CASE a = "base" -> ClampTo(p[a] + st["base"], 0, 180)
       [] a = "arm1" -> ClampTo(p[a] + st["arm1"], 0, 90)
       [] a = "arm2" -> ClampTo(ClampTo(p[a] - st["arm1"], 30, 180) - st["arm2"], 30, 180)
       [] a = "hand" -> ClampTo(p[a] - st["hand"], 80, 130)]

\* the steps of the four axes, each from middle_pos m and this tick's reading
StepsFrom(m) == [a \in Axes |-> process_step(m[a], reading[a])]

\* the steps applied to axis a in a tick: its own, and for arm2 also arm1's
StepsAppliedTo(a) == IF a = "arm2" THEN {step["arm1"], step["arm2"]} ELSE {step[a]}

\* C6 as stated: in a tick where home fired, an axis ends the tick at
\* initial_pos only if the steps applied to it are zero.
HomeOnlyIfZeroSteps ==
  (TickDone /\ triggered["button_home"]) =>
    \A a \in Axes : current_pos[a] = initial_pos(a) => StepsAppliedTo(a) = {0}

\* C6, amended: a tick polls the calibrate button (calibrating every axis if
\* it fired), then the home button (resetting every axis if it fired), then
\* processes base, arm1, arm2, hand, then writes the indicator.  So in a tick
\* where calibration fired the steps come from the new middle_pos, and in a
\* tick where home fired the positions at its end are that tick's steps
\* applied to initial_pos: base, arm1 and hand end at initial_pos exactly
\* when their step is zero, arm2 exactly when arm1's step and its own cancel.
TickOrder ==
  /\ [](TickDone =>
          /\ triggered["button_calibrate"] =>
                (middle_pos = cal_reading /\ step = StepsFrom(cal_reading))
          /\ ~triggered["button_calibrate"] => step = StepsFrom(middle_pos)
          /\ triggered["button_home"] =>
                current_pos = AfterSteps([a \in Axes |-> initial_pos(a)], step)
          /\ triggered["button_home"] =>
                /\ \A a \in {"base", "arm1", "hand"} :
                     (current_pos[a] = initial_pos(a)) = (step[a] = 0)
                /\ (current_pos["arm2"] = initial_pos("arm2"))
                     = (step["arm1"] + step["arm2"] = 0)
          /\ current_pos = AfterSteps(before, step)
          /\ led = moved)
  /\ [][/\ pc = "calibrate" => pc' \in {"calibrate", "home"}
        /\ pc = "home" => (pc' = "home" \/ (pc' = "process" /\ i' = 1))
        /\ pc = "process" =>
              \/ (pc' = "process" /\ i' \in {i, i + 1})
              \/ (pc' = "indicate" /\ axes[i] = "hand")
        /\ pc = "process" => (reading'[axes[i]] # NoRead) = (pc' # pc \/ i' # i)
        /\ pc = "indicate" => pc' \in {"indicate", "calibrate"}]_vars

\* a tick in which both buttons fired and an axis computed a non-zero step
\* has completed away from the home position
TickOrderWitness ==
  /\ TickDone
  /\ triggered["button_calibrate"] /\ triggered["button_home"]
  /\ \E a \in Axes : step[a] # 0 /\ current_pos[a] # initial_pos(a)

(***************************************************************************)
(* C7  Indicator and movement                                               *)
(***************************************************************************)
\* some axis's current_pos differs from its value when processing started
SomeAxisMoved == \E a \in Axes : current_pos[a] # before[a]

\* C7 as stated: the indicator is high exactly when some axis's position
\* changed during the tick's processing.
IndicatorIffMoved == TickDone => (led = SomeAxisMoved)

\* C7, amended: the indicator is high whenever some axis's position changed
\* during the tick's processing, and low only when none changed; it is also
\* high when the only non-zero steps went to axes held at a clamp bound or
\* cancelled on arm2.
IndicatorIfMoved == TickDone => (SomeAxisMoved => led)

\* a tick has completed in which an axis moved by a negative step
IndicatorWitness ==
  /\ TickDone /\ led
  /\ \E a \in Axes : step[a] < 0 /\ current_pos[a] # before[a]

(***************************************************************************)
(* C8  Indicator is the OR of the results                                   *)
(***************************************************************************)
\* C8: process() returns true iff the step it computed from its own joystick
\* is non-zero, and the indicator is written with the OR of the four results.
IndicatorIsOr ==
  TickDone =>
    /\ \A a \in Axes : /\ step[a] = process_step(middle_pos[a], reading[a])
                        /\ result[a] = (step[a] # 0)
    /\ led = (\E a \in Axes : result[a])

\* a tick has completed in which only the first axis of a joystick returned
\* true; in the joystick-1 case arm2 moved through the link and returned false
IndicatorIsOrWitness ==
  /\ TickDone /\ led
  /\ \E a \in {"base", "arm1"} : result[a] /\ \A x \in Axes \ {a} : ~result[x]

(***************************************************************************)
(* C9  Direction inversion                                                  *)
(***************************************************************************)
\* C9: from the same position p, bounds and step s a POS axis moves to
\* clamp(p + s) and a NEG axis to clamp(p - s); with s # 0 they never move
\* the same way, and unclamped their displacements are exact negations.
\* Checked at every process(): p is the processed axis's position, s its step.
DirectionInversion ==
  [][(pc = "process") =>
       LET a == axes[i]
           p == current_pos[a]
           s == step'[a]
           toPos == move("POS", p, s, min_pos(a), max_pos(a))
           toNeg == move("NEG", p, s, min_pos(a), max_pos(a))
       IN  /\ toPos = ClampTo(p + s, min_pos(a), max_pos(a))
           /\ toNeg = ClampTo(p - s, min_pos(a), max_pos(a))
           /\ current_pos'[a] = IF direction(a) = "POS" THEN toPos ELSE toNeg
           /\ s # 0 => (toPos - p) * (toNeg - p) <= 0
           /\ (toPos = p + s /\ toNeg = p - s) => (toPos - p) = -(toNeg - p)]_vars

\* hand (NEG) and base (POS) were processed with non-zero steps and moved
\* unclamped, hand against its step and base with it
DirectionWitness ==
  /\ TickDone
  /\ step["hand"] # 0 /\ current_pos["hand"] = before["hand"] - step["hand"]
  /\ step["base"] # 0 /\ current_pos["base"] = before["base"] + step["base"]

(***************************************************************************)
(* C10  Drive to the clamp and stay                                         *)
(***************************************************************************)
\* C10: base (initial 90, min 0, max 180, POS, not a link target), calibrated
\* at 512: a reading of 512 gives step 0 and leaves the position; a reading
\* of 0 gives step +5; held at 0 for n ticks in a row without a home trigger
\* the position is min(180, start + 5n), so from 90 it is 95 after one tick,
\* reaches 180 after 18 and is 180 on every later tick.
HoldDrive ==
  /\ middle_pos["base"] = Neutral
  /\ reading["base"] = Neutral => (step["base"] = 0 /\ current_pos["base"] = before["base"])
  /\ reading["base"] = 0 => step["base"] = 5
  /\ current_pos["base"] = Min(180, hold_start + 5 * held)
  /\ hold_start = 90 =>
       /\ held = 1 => current_pos["base"] = 95
       /\ held < 18 => current_pos["base"] < 180
       /\ held >= 18 => current_pos["base"] = 180

\* base has been held at 0 for 20 ticks in a row from 90 and stands at 180
HoldWitness ==
  /\ TickDone
  /\ hold_start = 90 /\ held = 20
  /\ reading["base"] = 0 /\ step["base"] = 5
  /\ current_pos["base"] = 180 /\ before["base"] = 180

(***************************************************************************)
(* C11  Startup state                                                       *)
(***************************************************************************)
\* setup() has returned and loop() has not polled anything yet
SetupDone == pc = "calibrate" /\ level["button_calibrate"] = "none"

\* C11: after setup() arm1 is linked to arm2, every axis has current_pos =
\* initial_pos, its middle_pos is the joystick value sampled during its
\* setup, the angle last commanded to its actuator is initial_pos, both
\* buttons have _state released and the indicator is low.
StartupState ==
  SetupDone =>
    /\ link = [a \in Axes |-> IF a = "arm1" THEN "arm2" ELSE NoAxis]
    /\ \A a \in Axes :
         /\ current_pos[a] = initial_pos(a)
         /\ calibration[a] \in 0..1023
         /\ middle_pos[a] = calibration[a]
         /\ servo[a] = initial_pos(a)
    /\ \A b \in Buttons : state[b] = FALSE
    /\ led = FALSE

\* setup() has returned with a joystick sampled away from the constructor's
\* default 512
StartupWitness ==
  /\ SetupDone
  /\ \E a \in Axes : middle_pos[a] # Neutral /\ middle_pos[a] = calibration[a]
  /\ \A a \in Axes : servo[a] = initial_pos(a)

(***************************************************************************)
(* C12  Reset idempotence                                                   *)
(***************************************************************************)
\* most reset() calls in a row enumerated
MaxResets == 3

RECURSIVE reset_times(_, _, _)
\* the fields of axis a after n reset() calls in a row
reset_times(a, ax, n) == IF n = 0 THEN ax ELSE reset_times(a, reset_state(a, ax), n - 1)

\* the fields of axis a in the current state
AxisFields(a) ==
  [current_pos |-> current_pos[a], middle_pos |-> middle_pos[a], servo |-> servo[a]]

\* axis states to reset from: any position from below min_pos to above
\* max_pos, any calibration, the servo not yet written or at the position
AxisStates(a) ==
  {[current_pos |-> p, middle_pos |-> m, servo |-> v] :
     p \in (min_pos(a) - 1)..(max_pos(a) + 1), m \in {0, Neutral, 1023}, v \in {NoAngle, min_pos(a)}}

\* from every axis state, each of n reset() calls in a row leaves current_pos
\* and the commanded angle at initial_pos and middle_pos as it was
ResetOnStates ==
  \A a \in Axes : \A ax \in AxisStates(a) : \A n \in 1..MaxResets :
    LET after == reset_times(a, ax, n)
    IN  /\ after.current_pos = initial_pos(a)
        /\ after.servo = initial_pos(a)
        /\ after.middle_pos = ax.middle_pos
        /\ after = reset_times(a, ax, 1)

\* a home trigger resets every axis: position and commanded angle are
\* initial_pos whatever they were, middle_pos is kept, and a second reset()
\* would change nothing
ResetOnHome ==
  (pc = "home" /\ triggered'["button_home"]) =>
    \A a \in Axes :
      /\ AxisFields(a)' = reset_state(a, AxisFields(a))
      /\ AxisFields(a)' = reset_state(a, AxisFields(a)')
      /\ current_pos'[a] = initial_pos(a)
      /\ servo'[a] = initial_pos(a)
      /\ middle_pos'[a] = middle_pos[a]

\* C12: reset() called n >= 1 times in a row leaves current_pos =
\* initial_pos and commands the actuator with initial_pos on each call; the
\* state after n calls is the state after one, and middle_pos is not changed.
ResetIdempotent ==
  /\ [](Constructed => ResetOnStates)
  /\ [][ResetOnHome]_vars

\* the home button has fired in a tick after one in which an axis was
\* commanded to move, and every axis is back at initial_pos
ResetWitness ==
  /\ pc = "process" /\ i = 1
  /\ triggered["button_home"]
  /\ led /\ \E a \in Axes : middle_pos[a] # Neutral
  /\ \A a \in Axes : current_pos[a] = initial_pos(a) /\ servo[a] = initial_pos(a)

(***************************************************************************)
(* C13  Calibration frame                                                   *)
(***************************************************************************)
\* calibrate() stores any reading of [0,1024) as it is
CalibrateStoresReading ==
  \A old \in {0, Neutral, 1023} : \A raw \in 0..1023 : calibrate(old, raw) = raw

\* a step of loop(): the calibrate poll changes no position and commands no
\* servo, and sets each middle_pos to the reading of its own axis if it fired
\* and leaves it otherwise; no other step changes middle_pos; process()
\* computes its step from the latest calibration
CalibrationStep ==
  /\ (pc = "calibrate") =>
       /\ current_pos' = current_pos /\ servo' = servo
       /\ triggered'["button_calibrate"] =>
            (middle_pos' = cal_reading' /\ calibration' = cal_reading')
       /\ ~triggered'["button_calibrate"] =>
            (middle_pos' = middle_pos /\ calibration' = calibration)
  /\ (pc \notin {"setup", "calibrate"}) =>
       (middle_pos' = middle_pos /\ calibration' = calibration)
  /\ (pc = "process") =>
       step'[axes[i]] = process_step(calibration[axes[i]], reading'[axes[i]])

\* C13: calibrate() changes only middle_pos of its axis, to the raw value
\* read, leaves current_pos and issues no actuator command; process(), move()
\* and reset() leave middle_pos unchanged, and every process() after a
\* calibration computes its deviation from the new middle_pos.
CalibrationFrame ==
  /\ [](Constructed => CalibrateStoresReading)
  /\ [][CalibrationStep]_vars

\* in a tick where calibration fired with the joystick deflected, an axis
\* away from its home position has processed a step from the new middle_pos
CalibrationWitness ==
  \E a \in Axes :
    /\ triggered["button_calibrate"] /\ ~triggered["button_home"]
    /\ cal_reading[a] = 1023 /\ reading[a] = 0 /\ step[a] = 10
    /\ before[a] # initial_pos(a)

(***************************************************************************)
(* C14  Linear mapping boundary                                             *)
(***************************************************************************)
\* the deviation at the end of the mapped domain
Boundary == 512 - joystick_noise

\* every pair of null position and reading that lies on a domain boundary
BoundaryOnValues ==
  /\ \A m \in Boundary..1023 : process_step(m, m - Boundary) = step_width
  /\ \A m \in 0..(1023 - Boundary) : process_step(m, m + Boundary) = -step_width

\* C14: in process() a deviation of exactly +502 yields step +5 and a
\* deviation of exactly -502 yields step -5.
MappingBoundary ==
  /\ Constructed => BoundaryOnValues
  /\ \A a \in Axes :
       reading[a] # NoRead =>
         /\ middle_pos[a] - reading[a] = Boundary => step[a] = step_width
         /\ middle_pos[a] - reading[a] = -Boundary => step[a] = -step_width

\* base was processed at the positive boundary and advanced by step_width
MappingBoundaryWitness ==
  /\ reading["base"] # NoRead
  /\ middle_pos["base"] - reading["base"] = Boundary
  /\ step["base"] = step_width
  /\ current_pos["base"] = before["base"] + step_width

(***************************************************************************)
(* C15  Unchecked configuration                                             *)
(***************************************************************************)
InBounds(a, p) == min_pos(a) <= p /\ p <= max_pos(a)

\* while the misconfigured axis is outside its bounds it sits at initial_pos,
\* the servo was commanded that angle, and no move() has acted on it since
\* the reset; every other axis is inside its bounds
OutsideOnlyAfterReset ==
  /\ Constructed => ~InBounds(Misconfigured, initial_pos(Misconfigured))
  /\ pc # "setup" =>
       /\ ~InBounds(Misconfigured, current_pos[Misconfigured]) =>
            /\ current_pos[Misconfigured] = initial_pos(Misconfigured)
            /\ servo[Misconfigured] = initial_pos(Misconfigured)
            /\ moves[Misconfigured] = 0
       /\ \A a \in Axes \ {Misconfigured} : InBounds(a, current_pos[a])

\* setup() and a triggered home leave the axis at initial_pos outside its
\* bounds and command that angle; a process() that moves the axis, its own or
\* that of the axis linked to it, brings it back inside
ResetUnclamped ==
  /\ (pc = "setup" \/ (pc = "home" /\ triggered'["button_home"])) =>
       /\ current_pos'[Misconfigured] = initial_pos(Misconfigured)
       /\ servo'[Misconfigured] = initial_pos(Misconfigured)
       /\ ~InBounds(Misconfigured, current_pos'[Misconfigured])
  /\ (pc = "process" /\ Misconfigured \in {axes[i], link[axes[i]]}) =>
       /\ InBounds(Misconfigured, current_pos'[Misconfigured])
       /\ servo'[Misconfigured] = current_pos'[Misconfigured]

\* C15: for an axis constructed with initial_pos outside [min_pos, max_pos],
\* reset() and setup() set current_pos to initial_pos unclamped and command
\* the actuator with that angle; the clamp invariant is violated until the
\* next move() on that axis, after which current_pos is inside the bounds.
UncheckedConfiguration ==
  /\ []OutsideOnlyAfterReset
  /\ [][ResetUnclamped]_vars

\* a tick with a triggered home: the axis stood outside its bounds after the
\* reset and a move() has brought it back inside
UncheckedWitness ==
  /\ triggered["button_home"]
  /\ ~InBounds(Misconfigured, before[Misconfigured])
  /\ moves[Misconfigured] > 0
  /\ InBounds(Misconfigured, current_pos[Misconfigured])

(***************************************************************************)
(* C16  Actuator consistency                                                *)
(***************************************************************************)
\* C16: after setup, between any two operations the angle last commanded to
\* each axis's servo equals its current_pos, and for the configured axes it
\* lies in [min_pos, max_pos].
ActuatorConsistency ==
  pc # "setup" =>
    \A a \in Axes : servo[a] = current_pos[a] /\ InBounds(a, servo[a])

\* arm1 was processed with a non-zero step, arm2 not yet: arm2 has moved
\* through the link and its servo was commanded the new position
ActuatorWitness ==
  /\ reading["arm1"] # NoRead /\ reading["arm2"] = NoRead
  /\ step["arm1"] # 0
  /\ current_pos["arm2"] # before["arm2"]
  /\ servo["arm2"] = current_pos["arm2"]

(***************************************************************************)
(* C17  Per-tick movement of the linked axis                                *)
(***************************************************************************)
\* the axes no other axis links to
NotLinkTargets == {a \in Axes : \A x \in Axes : link[x] # a}

\* arm2's position after one move by step s from position p, clamped
Arm2After(p, s) == ClampTo(p - s, min_pos("arm2"), max_pos("arm2"))

\* after arm1.process() and before arm2.process(), arm2 was moved once, by
\* arm1's step
LinkedAfterFirstMove ==
  (pc = "process" /\ reading["arm1"] # NoRead /\ reading["arm2"] = NoRead) =>
    /\ moves["arm2"] = 1
    /\ current_pos["arm2"] = Arm2After(before["arm2"], step["arm1"])

\* at the end of a tick
LinkedAtTickEnd ==
  TickDone =>
    /\ NotLinkTargets = {"base", "arm1", "hand"}
    /\ \A a \in NotLinkTargets :
         /\ moves[a] = 1
         /\ abs(current_pos[a] - before[a]) <= abs(step[a])
    /\ moves["arm2"] = 2
    /\ current_pos["arm2"]
         = Arm2After(Arm2After(before["arm2"], step["arm1"]), step["arm2"])
    /\ abs(current_pos["arm2"] - before["arm2"])
         <= abs(step["arm1"]) + abs(step["arm2"])
    /\ (/\ step["arm1"] = -step["arm2"] /\ step["arm1"] # 0
        /\ InBounds("arm2", before["arm2"] - step["arm1"]))
         => current_pos["arm2"] = before["arm2"]

\* C17: in one tick base, arm1 and hand are moved exactly once and change by
\* at most the magnitude of their own step; arm2 is moved exactly twice, by
\* arm1's step s1 and then by its own step s2, each move clamped separately,
\* ending at clamp(clamp(p - s1) - s2), at most |s1| + |s2| from p; with
\* s1 = -s2 # 0 and no clamp in the way it ends at p.
LinkedMovement == LinkedAfterFirstMove /\ LinkedAtTickEnd

\* a tick in which arm2 moved by the full |s1| + |s2|, both non-zero
LinkedMovementWitness ==
  /\ TickDone
  /\ step["arm1"] # 0 /\ step["arm2"] # 0
  /\ abs(current_pos["arm2"] - before["arm2"])
       = abs(step["arm1"]) + abs(step["arm2"])

\* a tick in which opposing non-zero steps returned arm2 to where it was,
\* strictly inside its bounds
LinkedCancelWitness ==
  /\ TickDone
  /\ step["arm1"] = -step["arm2"] /\ step["arm1"] # 0
  /\ current_pos["arm2"] = before["arm2"]
  /\ min_pos("arm2") < current_pos["arm2"] /\ current_pos["arm2"] < max_pos("arm2")

(***************************************************************************)
(* C18  One-sided dead zone                                                 *)
(***************************************************************************)
\* every deviation two values of [0,1024) can have
Deviations == (0 - 1023)..1023

\* the step process() computes at deviation d
StepAt(d) == IF d >= 0 THEN process_step(1023, 1023 - d) ELSE process_step(0, 0 - d)

\* what the claim says of the step s at deviation d
OneSided(d, s) ==
  /\ (d > 0 => s >= 0) /\ (d < 0 => s <= 0)
  /\ d <= -joystick_noise => (s < 0 /\ process_result(s))
  /\ (joystick_noise <= d /\ d <= 100) => (s = 0 /\ ~process_result(s))
  /\ (s > 0) = (d >= 101)

\* over all null positions and readings: the step depends on the deviation
\* only, is non-decreasing in it, and is one-sided as stated
OneSidedOnValues ==
  /\ \A m \in {0, Neutral - 1, Neutral, 1023} : \A r \in 0..1023 :
       process_step(m, r) = StepAt(m - r)
  /\ \A d \in Deviations : OneSided(d, StepAt(d))
  /\ \A d \in Deviations \ {1023} : StepAt(d) <= StepAt(d + 1)

\* C18: the step never has the sign opposite to the deviation d and is
\* non-decreasing in d; every d <= -10 yields a negative step and process()
\* returns true, 10 <= d <= 100 yields step 0, process() returns false and
\* the position is unchanged, and a positive step is produced only for
\* d >= 101.
OneSidedDeadZone ==
  /\ Constructed => OneSidedOnValues
  /\ \A a \in Axes :
       reading[a] # NoRead =>
         /\ OneSided(middle_pos[a] - reading[a], step[a])
         /\ result[a] = (step[a] # 0)
         /\ (a = "base" /\ step[a] = 0) => current_pos[a] = before[a]

\* base was processed at deviation +100: step 0, no movement reported, the
\* position unchanged
OneSidedWitness ==
  /\ reading["base"] # NoRead
  /\ middle_pos["base"] - reading["base"] = 100
  /\ step["base"] = 0 /\ ~result["base"]
  /\ current_pos["base"] = before["base"]

\* base was processed at deviation -10 and moved one degree back
OneSidedNegativeWitness ==
  /\ reading["base"] # NoRead
  /\ middle_pos["base"] - reading["base"] = -joystick_noise
  /\ step["base"] < 0 /\ result["base"]
  /\ current_pos["base"] = before["base"] - 1
====
